---- MODULE Spec2Model ----
(***************************************************************************)
(* The Product/Company API of main.py: two in-memory dictionaries and the  *)
(* create / list / get / patch / delete handlers registered on them.  Each *)
(* action is one HTTP request handled to completion: request validation    *)
(* against the handler's pydantic parameter types, the handler body, and   *)
(* the validation of the returned value against the route's                *)
(* response_model.  The handlers are plain "def" functions, which the       *)
(* framework runs on a thread pool: the second part of the module takes the *)
(* product handlers one source line at a time, on two threads.             *)
(***************************************************************************)
EXTENDS Integers, Sequences, FiniteSets, TLC

VARIABLES products, companies, now, resp, nreq, threads

vars == <<products, companies, now, resp, nreq, threads>>

\* ------------------------------------------------------------------ bounds
\* The instants datetime.utcnow() can return are 0..MaxClock.
MaxClock == 1
\* The number of requests a behaviour handles.
MaxReq == 3

\* The number of requests a run of SpecAll handles.
MaxAllReq == 2

\* ----------------------------------------------------------- value domains
\* Python's None.
Null == "None"
\* The body of a response that carries no record (204, or an error detail):
\* the record without fields.
NoBody == [f \in {} |-> Null]
\* A request value of the wrong type for its field (a word for a number).
WrongType == "wrong-type"

UUIDs == {"u1", "u2"}

\* A path segment or an id value that does not parse as a UUID.
MalformedUUID == "not-a-uuid"

\* Validation of a value declared UUID.
UUIDValid(x) == x \in UUIDs

\* The ids a request path can carry.
PathIds == UUIDs \cup {MalformedUUID}


\* uuid4(): any UUID.
uuid4 == UUIDs

\* datetime.utcnow() when the latest reading so far is t: the same instant or
\* a later one.  Timestamps are only stored, copied and compared, so the
\* instants stand for the distinct values read, and a later reading is the
\* next instant.
utcnow(t) == {t, t + 1} \cap (0..MaxClock)

\* ----------------------------------------------------------------- schemas
ProductRequired == {"name", "price", "quantity"}
ProductUpdateFields == {"name", "description", "price", "quantity"}
ProductBaseFields == {"id"} \cup ProductUpdateFields
ProductReadFields == ProductBaseFields \cup {"created_at", "updated_at"}

CompanyUpdateFields == {"name", "industry", "employees", "phone", "state"}
CompanyRequired == CompanyUpdateFields
CompanyBaseFields == {"id"} \cup CompanyUpdateFields
CompanyReadFields == CompanyBaseFields \cup {"created_at", "updated_at"}

\* ------------------------------------------------------------ python dicts
\* A dict is the sequence of its items in insertion order.
Keys(d) == {d[i].key : i \in DOMAIN d}

Contains(d, k) == k \in Keys(d)

GetItem(d, k) == d[CHOOSE i \in DOMAIN d : d[i].key = k].val

\* d[k] = v: an existing key keeps its position, a new key goes last.
SetItem(d, k, v) ==
    IF Contains(d, k)
    THEN [i \in DOMAIN d |-> IF d[i].key = k THEN [key |-> k, val |-> v] ELSE d[i]]
    ELSE Append(d, [key |-> k, val |-> v])

\* del d[k]
DelItem(d, k) == SelectSeq(d, LAMBDA e : e.key # k)

\* list(d.values())
Values(d) == [i \in DOMAIN d |-> d[i].val]

\* stored.update(other) on two field dicts.
DictUpdate(stored, other) ==
    [f \in DOMAIN stored \cup DOMAIN other |->
        IF f \in DOMAIN other THEN other[f] ELSE stored[f]]

\* The fields of a model instance restricted to a schema's fields (pydantic
\* ignores the extra keys of **kwargs and of a from_attributes source).
Restrict(v, fields) == [f \in DOMAIN v \cap fields |-> v[f]]

\* ------------------------------------------------------------------ inputs
\* The example payloads of the schemas (model_config examples).
ProductExamples ==
    { [name |-> "Toaster", description |-> "appliance", price |-> "24.99", quantity |-> "35"],
      [name |-> "Bag", description |-> Null, price |-> "24.99", quantity |-> "1"] }

CompanyExamples ==
    { [name |-> "Major", industry |-> "Aerospace", employees |-> "400",
       phone |-> "555", state |-> "New York"],
      [name |-> "Empire", industry |-> "Transportation", employees |-> "200",
       phone |-> "212", state |-> "New York"] }

\* POST bodies: an example with a client-supplied id and without an id, and
\* one example with the required field name missing, with a price of the
\* wrong type, and with an id that is not a UUID.
CreateBodies(examples) ==
    UNION { { DictUpdate(e, [id |-> u]) : u \in UUIDs } \cup {e} : e \in examples }
    \cup UNION { { Restrict(e, DOMAIN e \ {"name"}),
                   DictUpdate(e, [price |-> WrongType]),
                   DictUpdate(e, [id |-> MalformedUUID]) } :
                 e \in {CHOOSE x \in examples : TRUE} }

ProductCreateBodies == CreateBodies(ProductExamples)
CompanyCreateBodies == CreateBodies(CompanyExamples)

\* The value a PATCH body gives a field it supplies.
ProductPatchValue ==
    [name |-> "Kettle", description |-> "boils", price |-> "19.99", quantity |-> "7"]
CompanyPatchValue ==
    [name |-> "Minor", industry |-> "Retail", employees |-> "450",
     phone |-> "999", state |-> "Ohio"]

\* One field sent as an explicit null, with every other field supplied with a
\* value.
NullBodies(value) ==
    { DictUpdate(value, [f \in {g} |-> Null]) : g \in DOMAIN value }

\* PATCH /products bodies: no field, one field, two fields or every field
\* supplied with a value, a null alone or among the other fields, a body that
\* also carries an id, and a body with a value of the wrong type.
ProductPatchBodies ==
    { Restrict(ProductPatchValue, S) :
        S \in { {}, {"price"}, {"quantity"}, {"price", "quantity"},
                 ProductUpdateFields } }
    \cup { b \in NullBodies(ProductPatchValue) : b.quantity = Null }
    \cup { [name |-> Null], [description |-> Null] }
    \cup { [id |-> "u2", price |-> "19.99"], [price |-> WrongType] }

\* PATCH /companies bodies: no field, one field, two fields or every field
\* supplied with a value, a null among the other fields, a body that also
\* carries an id, and a body with a value of the wrong type.
CompanyPatchBodies ==
    { Restrict(CompanyPatchValue, S) :
        S \in { {}, {"employees"}, {"name", "state"}, CompanyUpdateFields } }
    \cup NullBodies(CompanyPatchValue)
    \cup { DictUpdate(CompanyPatchValue, [id |-> "u2"]),
           DictUpdate(CompanyPatchValue, [employees |-> WrongType]) }

\* PATCH requests: every body on a well-formed id, and one request on a path
\* id that is not a UUID.
PatchRequests(bodies) == (UUIDs \X bodies) \cup {<<MalformedUUID, NoBody>>}

ProductPatchRequests == PatchRequests(ProductPatchBodies)
CompanyPatchRequests == PatchRequests(CompanyPatchBodies)

\* Query strings of the list routes, one optional criterion per field: the
\* criteria of the first example, and criteria on other values.
ProductQueries ==
    { Restrict([name |-> "Toaster", description |-> "appliance",
                price |-> "24.99", quantity |-> "35"], S) :
        S \in { {}, {"name"}, {"price"}, {"quantity"}, {"description", "price"},
                 ProductUpdateFields } }
    \cup { [quantity |-> "1"], [name |-> "Kettle"] }

CompanyQueries ==
    { Restrict([name |-> "Major", industry |-> "Aerospace", employees |-> "400",
                phone |-> "555", state |-> "New York"], S) :
        S \in { {}, {"name"}, {"employees"}, {"name", "state"}, CompanyUpdateFields } }
    \cup { [employees |-> "450"], [state |-> "Texas"] }

\* --------------------------------------------------------------- responses
\* A response: the record it carries (body), or for a list route the records
\* it carries (items).
Response(op, kind, id, status, body) ==
    [op |-> op, kind |-> kind, id |-> id, status |-> status, body |-> body,
     items |-> <<>>]

ListResponse(kind, status, items) ==
    [op |-> "list", kind |-> kind, id |-> Null, status |-> status, body |-> NoBody,
     items |-> items]

\* ------------------------------------------------------------ product model
\* Request validation of a POST body against ProductCreate: the required
\* fields are present and not null.
ProductCreateValid(body) ==
    /\ "id" \in DOMAIN body => UUIDValid(body.id)
    /\ \A f \in ProductRequired : f \in DOMAIN body /\ body[f] # Null
    /\ \A f \in DOMAIN body : body[f] # WrongType

\* Request validation of a PATCH body against ProductUpdate: every field is
\* optional and nullable, and a value of the wrong type is rejected.
ProductUpdateValid(body) ==
    \A f \in DOMAIN body \cap ProductUpdateFields : body[f] # WrongType

\* ProductUpdate(**body).model_dump(exclude_unset=True): the declared fields
\* the body supplies (other keys are ignored).
ProductUpdate(body) == Restrict(body, ProductUpdateFields)

\* ProductCreate(**body): id defaults to uuid4() (u), description to None.
ProductCreate(body, u) ==
    [f \in ProductBaseFields |->
        IF f \in DOMAIN body THEN body[f]
        ELSE IF f = "id" THEN u ELSE Null]

\* Validation of ProductRead(**kwargs).
ProductReadValid(kwargs) ==
    \A f \in ProductRequired : f \in DOMAIN kwargs /\ kwargs[f] # Null

\* ProductRead(**kwargs): id defaults to uuid4() (u), description to None,
\* created_at to one utcnow() reading (c) and updated_at to the next (t).
ProductRead(kwargs, u, c, t) ==
    [f \in ProductReadFields |->
        IF f \in DOMAIN kwargs THEN kwargs[f]
        ELSE CASE f = "id" -> u
               [] f = "description" -> Null
               [] f = "created_at" -> c
               [] f = "updated_at" -> t]

\* create_product without its "if product.id in products" check.
create_product_overwrite(body) ==
    /\ nreq < MaxReq
    /\ nreq' = nreq + 1
    /\ UNCHANGED threads
    /\ UNCHANGED companies
    /\ IF ~ProductCreateValid(body)
       THEN /\ resp' = Response("create", "product", Null, 422, NoBody)
            /\ UNCHANGED <<products, now>>
       ELSE \E u \in uuid4 :
            LET product == ProductCreate(body, u) IN
            \E c \in utcnow(now) : \E t \in utcnow(c) :
                 /\ products' = SetItem(products, product.id,
                                        ProductRead(product, product.id, c, t))
                 /\ now' = t
                 /\ resp' = Response("create", "product", product.id, 201,
                                     Restrict(GetItem(products', product.id),
                                              ProductBaseFields))

\* POST /product
create_product(body) ==
    /\ nreq < MaxReq
    /\ nreq' = nreq + 1
    /\ UNCHANGED threads
    /\ UNCHANGED companies
    /\ IF ~ProductCreateValid(body)
       THEN /\ resp' = Response("create", "product", Null, 422, NoBody)
            /\ UNCHANGED <<products, now>>
       ELSE \E u \in uuid4 :
            LET product == ProductCreate(body, u) IN
            IF Contains(products, product.id)
            THEN /\ resp' = Response("create", "product", product.id, 400, NoBody)
                 /\ UNCHANGED <<products, now>>
            ELSE \E c \in utcnow(now) : \E t \in utcnow(c) :
                 /\ products' = SetItem(products, product.id,
                                        ProductRead(product, product.id, c, t))
                 /\ now' = t
                 /\ resp' = Response("create", "product", product.id, 201,
                                     Restrict(GetItem(products', product.id),
                                              ProductBaseFields))

\* One "if x is not None: results = [a for a in results if a.x == x]".
FilterBy(results, q, f) ==
    IF f \in DOMAIN q THEN SelectSeq(results, LAMBDA a : a[f] = q[f]) ELSE results

\* list_products with its quantity criterion compared with the price.
list_products_swapped(q) ==
    /\ nreq < MaxReq
    /\ nreq' = nreq + 1
    /\ UNCHANGED threads
    /\ LET r0 == Values(products)
           r1 == FilterBy(r0, q, "name")
           r2 == FilterBy(r1, q, "description")
           r3 == FilterBy(r2, q, "price")
           r4 == IF "quantity" \in DOMAIN q
                 THEN SelectSeq(r3, LAMBDA a : a.price = q.quantity) ELSE r3
       IN resp' = ListResponse("product", 200, r4)
    /\ UNCHANGED <<products, companies, now>>

\* GET /product
list_products(q) ==
    /\ nreq < MaxReq
    /\ nreq' = nreq + 1
    /\ UNCHANGED threads
    /\ LET r0 == Values(products)
           r1 == FilterBy(r0, q, "name")
           r2 == FilterBy(r1, q, "description")
           r3 == FilterBy(r2, q, "price")
           r4 == FilterBy(r3, q, "quantity")
       IN resp' = ListResponse("product", 200, r4)
    /\ UNCHANGED <<products, companies, now>>

\* What get_products returns or raises on the dict d.
get_products_response(d, product_id) ==
    IF ~Contains(d, product_id)
    THEN Response("get", "product", product_id, 404, NoBody)
    ELSE Response("get", "product", product_id, 200, GetItem(d, product_id))

\* GET /products/{product_id}
get_products(product_id) ==
    /\ nreq < MaxReq
    /\ nreq' = nreq + 1
    /\ UNCHANGED threads
    /\ IF ~UUIDValid(product_id)
       THEN resp' = Response("get", "product", Null, 422, NoBody)
       ELSE resp' = get_products_response(products, product_id)
    /\ UNCHANGED <<products, companies, now>>

\* update_product taking its body as a plain dict, without the request
\* validation of the path id and of the body.
update_product_unvalidated(product_id, body) ==
    /\ nreq < MaxReq
    /\ nreq' = nreq + 1
    /\ UNCHANGED threads
    /\ UNCHANGED <<companies, now>>
    /\ IF ~Contains(products, product_id)
       THEN /\ resp' = Response("patch", "product", product_id, 404, NoBody)
            /\ UNCHANGED products
       ELSE LET stored == DictUpdate(GetItem(products, product_id), ProductUpdate(body)) IN
            /\ products' = SetItem(products, product_id,
                                   ProductRead(stored, product_id, now, now))
            /\ resp' = Response("patch", "product", product_id, 200,
                                GetItem(products', product_id))

\* PATCH /products/{product_id}
update_product(product_id, body) ==
    /\ nreq < MaxReq
    /\ nreq' = nreq + 1
    /\ UNCHANGED threads
    /\ UNCHANGED <<companies, now>>
    /\ IF ~UUIDValid(product_id)
       THEN /\ resp' = Response("patch", "product", Null, 422, NoBody)
            /\ UNCHANGED products
       ELSE IF ~ProductUpdateValid(body)
       THEN /\ resp' = Response("patch", "product", product_id, 422, NoBody)
            /\ UNCHANGED products
       ELSE IF ~Contains(products, product_id)
       THEN /\ resp' = Response("patch", "product", product_id, 404, NoBody)
            /\ UNCHANGED products
       ELSE LET stored == DictUpdate(GetItem(products, product_id), ProductUpdate(body)) IN
            IF ~ProductReadValid(stored)
            THEN \* ProductRead(**stored) raises ValidationError in the handler
                 /\ resp' = Response("patch", "product", product_id, 500, NoBody)
                 /\ UNCHANGED products
            ELSE /\ products' = SetItem(products, product_id,
                                        ProductRead(stored, product_id, now, now))
                 /\ resp' = Response("patch", "product", product_id, 200,
                                     GetItem(products', product_id))

\* delete_product without its "del products[product_id]".
delete_product_keep(product_id) ==
    /\ nreq < MaxReq
    /\ nreq' = nreq + 1
    /\ UNCHANGED threads
    /\ UNCHANGED <<products, companies, now>>
    /\ IF ~UUIDValid(product_id)
       THEN resp' = Response("delete", "product", Null, 422, NoBody)
       ELSE IF ~Contains(products, product_id)
       THEN resp' = Response("delete", "product", product_id, 404, NoBody)
       ELSE resp' = Response("delete", "product", product_id, 204, NoBody)

\* DELETE /products/{product_id}
delete_product(product_id) ==
    /\ nreq < MaxReq
    /\ nreq' = nreq + 1
    /\ UNCHANGED threads
    /\ UNCHANGED <<companies, now>>
    /\ IF ~UUIDValid(product_id)
       THEN /\ resp' = Response("delete", "product", Null, 422, NoBody)
            /\ UNCHANGED products
       ELSE IF ~Contains(products, product_id)
       THEN /\ resp' = Response("delete", "product", product_id, 404, NoBody)
            /\ UNCHANGED products
       ELSE /\ products' = DelItem(products, product_id)
            /\ resp' = Response("delete", "product", product_id, 204, NoBody)

\* ------------------------------------------------------------ company model
\* Request validation of a POST body against CompanyCreate.
CompanyCreateValid(body) ==
    /\ "id" \in DOMAIN body => UUIDValid(body.id)
    /\ \A f \in CompanyRequired : f \in DOMAIN body /\ body[f] # Null
    /\ \A f \in DOMAIN body : body[f] # WrongType

\* CompanyCreate(**body): id defaults to uuid4() (u).
CompanyCreate(body, u) ==
    [f \in CompanyBaseFields |-> IF f \in DOMAIN body THEN body[f] ELSE u]

\* Validation against CompanyRead, of keyword arguments or of the attributes
\* of a returned object.
CompanyReadValid(kwargs) ==
    \A f \in CompanyRequired : f \in DOMAIN kwargs /\ kwargs[f] # Null

\* CompanyRead(**kwargs): id defaults to uuid4() (u), created_at to one
\* utcnow() reading (c) and updated_at to the next (t).
CompanyRead(kwargs, u, c, t) ==
    [f \in CompanyReadFields |->
        IF f \in DOMAIN kwargs THEN kwargs[f]
        ELSE CASE f = "id" -> u
               [] f = "created_at" -> c
               [] f = "updated_at" -> t]

\* Request validation of a PATCH body against CompanyUpdate: every field is
\* declared Optional[...] = Field(...), that is required and nullable, and a
\* value of the wrong type is rejected.
CompanyUpdateValid(body) ==
    /\ CompanyUpdateFields \subseteq DOMAIN body
    /\ \A f \in CompanyUpdateFields : body[f] # WrongType

\* CompanyUpdate(**kwargs): the five declared fields, the other keys ignored.
CompanyUpdate(kwargs) == Restrict(kwargs, CompanyUpdateFields)

\* Whether a stored value is a CompanyRead instance (it has the fields
\* CompanyUpdate lacks).
IsCompanyRead(v) == CompanyReadFields \subseteq DOMAIN v

\* response_model=CompanyRead on a returned value v, with the clock at t0: a
\* CompanyRead instance passes as it is; any other object is validated from
\* its attributes, the missing id, created_at and updated_at taking their
\* default_factory values.  The outcomes: ok (validation passed), the body,
\* and the clock after the readings.
CompanyReadResponse(v, t0) ==
    IF IsCompanyRead(v) THEN { [ok |-> TRUE, body |-> v, now |-> t0] }
    ELSE IF ~CompanyReadValid(v) THEN { [ok |-> FALSE, body |-> NoBody, now |-> t0] }
    ELSE UNION { { [ok |-> TRUE, body |-> CompanyRead(v, u, c, t), now |-> t] :
                     t \in utcnow(c) } :
                 u \in uuid4, c \in utcnow(t0) }

\* response_model=List[CompanyRead] on a list of returned values.
RECURSIVE CompanyReadListResponse(_, _)
CompanyReadListResponse(vs, t0) ==
    IF vs = <<>> THEN { [ok |-> TRUE, body |-> <<>>, now |-> t0] }
    ELSE IF \E i \in DOMAIN vs : ~IsCompanyRead(vs[i]) /\ ~CompanyReadValid(vs[i])
    THEN { [ok |-> FALSE, body |-> <<>>, now |-> t0] }
    ELSE UNION { { [ok |-> TRUE, body |-> <<h.body>> \o r.body, now |-> r.now] :
                     r \in CompanyReadListResponse(Tail(vs), h.now) } :
                 h \in CompanyReadResponse(Head(vs), t0) }

\* create_company with its id check made on the products dict.
create_company_shared(body) ==
    /\ nreq < MaxReq
    /\ nreq' = nreq + 1
    /\ UNCHANGED threads
    /\ UNCHANGED products
    /\ IF ~CompanyCreateValid(body)
       THEN /\ resp' = Response("create", "company", Null, 422, NoBody)
            /\ UNCHANGED <<companies, now>>
       ELSE \E u \in uuid4 :
            LET company == CompanyCreate(body, u) IN
            IF Contains(products, company.id)
            THEN /\ resp' = Response("create", "company", company.id, 400, NoBody)
                 /\ UNCHANGED <<companies, now>>
            ELSE \E c \in utcnow(now) : \E t \in utcnow(c) :
                 /\ companies' = SetItem(companies, company.id,
                                         CompanyRead(company, company.id, c, t))
                 /\ now' = t
                 /\ resp' = Response("create", "company", company.id, 201,
                                     Restrict(GetItem(companies', company.id),
                                              CompanyBaseFields))

\* POST /company
create_company(body) ==
    /\ nreq < MaxReq
    /\ nreq' = nreq + 1
    /\ UNCHANGED threads
    /\ UNCHANGED products
    /\ IF ~CompanyCreateValid(body)
       THEN /\ resp' = Response("create", "company", Null, 422, NoBody)
            /\ UNCHANGED <<companies, now>>
       ELSE \E u \in uuid4 :
            LET company == CompanyCreate(body, u) IN
            IF Contains(companies, company.id)
            THEN /\ resp' = Response("create", "company", company.id, 400, NoBody)
                 /\ UNCHANGED <<companies, now>>
            ELSE \E c \in utcnow(now) : \E t \in utcnow(c) :
                 /\ companies' = SetItem(companies, company.id,
                                         CompanyRead(company, company.id, c, t))
                 /\ now' = t
                 /\ resp' = Response("create", "company", company.id, 201,
                                     Restrict(GetItem(companies', company.id),
                                              CompanyBaseFields))

\* GET /company
list_companies(q) ==
    /\ nreq < MaxReq
    /\ nreq' = nreq + 1
    /\ UNCHANGED threads
    /\ LET r0 == Values(companies)
           r1 == FilterBy(r0, q, "name")
           r2 == FilterBy(r1, q, "industry")
           r3 == FilterBy(r2, q, "employees")
           r4 == FilterBy(r3, q, "phone")
           r5 == FilterBy(r4, q, "state")
       IN \E out \in CompanyReadListResponse(r5, now) :
            /\ resp' = ListResponse("company", IF out.ok THEN 200 ELSE 500, out.body)
            /\ now' = out.now
    /\ UNCHANGED <<products, companies>>

\* What get_companies returns or raises on the dict d with the clock at t0:
\* the responses, each with the clock after it.
get_companies_response(d, company_id, t0) ==
    IF ~Contains(d, company_id)
    THEN { [resp |-> Response("get", "company", company_id, 404, NoBody), now |-> t0] }
    ELSE { [resp |-> Response("get", "company", company_id,
                              IF out.ok THEN 200 ELSE 500, out.body),
            now |-> out.now] :
             out \in CompanyReadResponse(GetItem(d, company_id), t0) }

\* GET /companies/{company_id}
get_companies(company_id) ==
    /\ nreq < MaxReq
    /\ nreq' = nreq + 1
    /\ UNCHANGED threads
    /\ IF ~UUIDValid(company_id)
       THEN /\ resp' = Response("get", "company", Null, 422, NoBody)
            /\ UNCHANGED now
       ELSE \E r \in get_companies_response(companies, company_id, now) :
            /\ resp' = r.resp
            /\ now' = r.now
    /\ UNCHANGED <<products, companies>>

\* PATCH /companies/{company_id}: every CompanyUpdate field is required, so
\* update.model_dump(exclude_unset=True) holds all five.
update_company(company_id, body) ==
    /\ nreq < MaxReq
    /\ nreq' = nreq + 1
    /\ UNCHANGED threads
    /\ UNCHANGED products
    /\ IF ~UUIDValid(company_id)
       THEN /\ resp' = Response("patch", "company", Null, 422, NoBody)
            /\ UNCHANGED <<companies, now>>
       ELSE IF ~CompanyUpdateValid(body)
       THEN /\ resp' = Response("patch", "company", company_id, 422, NoBody)
            /\ UNCHANGED <<companies, now>>
       ELSE IF ~Contains(companies, company_id)
       THEN /\ resp' = Response("patch", "company", company_id, 404, NoBody)
            /\ UNCHANGED <<companies, now>>
       ELSE LET stored == DictUpdate(GetItem(companies, company_id), CompanyUpdate(body)) IN
            /\ companies' = SetItem(companies, company_id, CompanyUpdate(stored))
            /\ \E out \in CompanyReadResponse(GetItem(companies', company_id), now) :
                 /\ resp' = Response("patch", "company", company_id,
                                     IF out.ok THEN 200 ELSE 500, out.body)
                 /\ now' = out.now

\* DELETE /companies/{company_id}
delete_company(company_id) ==
    /\ nreq < MaxReq
    /\ nreq' = nreq + 1
    /\ UNCHANGED threads
    /\ UNCHANGED <<products, now>>
    /\ IF ~UUIDValid(company_id)
       THEN /\ resp' = Response("delete", "company", Null, 422, NoBody)
            /\ UNCHANGED companies
       ELSE IF ~Contains(companies, company_id)
       THEN /\ resp' = Response("delete", "company", company_id, 404, NoBody)
            /\ UNCHANGED companies
       ELSE /\ companies' = DelItem(companies, company_id)
            /\ resp' = Response("delete", "company", company_id, 204, NoBody)

\* ------------------------------------------------------------------ routing
\* GET on a path that no route of the application matches: the router answers
\* 404 and no handler runs.
no_route(path) ==
    /\ nreq < MaxReq
    /\ nreq' = nreq + 1
    /\ UNCHANGED threads
    /\ path \notin {"/", "/health", "/product", "/company"}
    /\ resp' = Response("route", "none", Null, 404, NoBody)
    /\ UNCHANGED <<products, companies, now>>

\* GET path?q, for a path of one segment: the handler whose route matches.
get_path(path, q) ==
    IF path = "/product" THEN list_products(q)
    ELSE IF path = "/company" THEN list_companies(q)
    ELSE no_route(path)

\* ------------------------------------------------------------------- health
\* socket.gethostbyname(socket.gethostname()): an address, or the lookup fails.
LookupFailed == "gaierror"
gethostbyname == {"10.0.0.1", LookupFailed}

\* The echo strings a health request carries.
Echoes == {Null, "hi"}

\* GET /health/{path_echo}?echo=... requests: the path echo and the echo.
PathEchoRequests == {<<"there", Null>>}

\* make_health: the timestamp is read before the address is resolved; a failed
\* lookup raises in the handler (500).
make_health(echo, path_echo) ==
    /\ nreq < MaxReq
    /\ nreq' = nreq + 1
    /\ UNCHANGED threads
    /\ \E t \in utcnow(now) : \E ip \in gethostbyname :
         /\ now' = t
         /\ resp' = IF ip = LookupFailed
                    THEN Response("health", "none", Null, 500, NoBody)
                    ELSE Response("health", "none", Null, 200,
                                  [status |-> 200, status_message |-> "OK",
                                   timestamp |-> t, ip_address |-> ip,
                                   echo |-> echo, path_echo |-> path_echo])
    /\ UNCHANGED <<products, companies>>

\* GET /health
get_health_no_path(echo) == make_health(echo, Null)

\* GET /health/{path_echo}
get_health_with_path(path_echo, echo) == make_health(echo, path_echo)

\* ------------------------------------------- handlers on the thread pool
\* The threads of the pool that run a handler.
Threads == {"t1", "t2"}

\* A thread: the line its handler is at (pc), the request (op, id and the
\* validated body), the handler's local variable stored, and the response
\* (status, out) once the handler has returned or raised.  present records
\* whether the id was a key of products when the request arrived.
Idle ==
    [pc |-> "idle", op |-> "none", id |-> Null, body |-> NoBody, present |-> FALSE,
     stored |-> NoBody, status |-> 0, out |-> NoBody]

\* The requests the threads handle, all on one id: POST bodies of two products,
\* and PATCH bodies of one field each.
ThreadId == "u1"
ThreadCreateBodies == { DictUpdate(e, [id |-> ThreadId]) : e \in ProductExamples }
ThreadPatchBodies == { [price |-> "19.99"], [quantity |-> "7"] }

\* A request arrives at an idle thread, which enters the handler at line pc.
Arrive(t, pc, op, body) ==
    /\ threads[t].pc = "idle"
    /\ threads' = [threads EXCEPT ![t] =
                     [Idle EXCEPT !.pc = pc, !.op = op, !.id = ThreadId, !.body = body,
                                  !.present = Contains(products, ThreadId)]]
    /\ nreq' = nreq + 1
    /\ UNCHANGED <<products, companies, now, resp>>

\* The handler moves on to line pc.
Goto(t, pc) ==
    /\ threads' = [threads EXCEPT ![t].pc = pc]
    /\ UNCHANGED <<resp, nreq>>

\* The handler returns or raises: the response is sent.
Return(t, status, out) ==
    /\ threads' = [threads EXCEPT ![t].pc = "done", ![t].status = status, ![t].out = out]
    /\ resp' = Response(threads[t].op, "product", threads[t].id, status, out)
    /\ UNCHANGED nreq

\* line 63: create_product is entered with the validated ProductCreate.
create_product_63(t, body) ==
    Arrive(t, "create_product_64", "create", ProductCreate(body, body.id))

\* line 64: if product.id in products: raise HTTPException(400)
create_product_64(t) ==
    /\ threads[t].pc = "create_product_64"
    /\ IF Contains(products, threads[t].id)
       THEN Return(t, 400, NoBody)
       ELSE Goto(t, "create_product_66")
    /\ UNCHANGED <<products, companies, now>>

\* line 66: products[product.id] = ProductRead(**product.model_dump())
create_product_66(t) ==
    /\ threads[t].pc = "create_product_66"
    /\ \E c \in utcnow(now) : \E u \in utcnow(c) :
         /\ products' = SetItem(products, threads[t].id,
                                ProductRead(threads[t].body, threads[t].id, c, u))
         /\ now' = u
    /\ Goto(t, "create_product_67")
    /\ UNCHANGED companies

\* line 67: return products[product.id] (KeyError when the key is gone)
create_product_67(t) ==
    /\ threads[t].pc = "create_product_67"
    /\ IF ~Contains(products, threads[t].id)
       THEN Return(t, 500, NoBody)
       ELSE Return(t, 201, Restrict(GetItem(products, threads[t].id), ProductBaseFields))
    /\ UNCHANGED <<products, companies, now>>

\* line 96: update_product is entered with the validated ProductUpdate.
update_product_96(t, body) ==
    Arrive(t, "update_product_97", "patch", ProductUpdate(body))

\* line 97: if product_id not in products: raise HTTPException(404)
update_product_97(t) ==
    /\ threads[t].pc = "update_product_97"
    /\ IF ~Contains(products, threads[t].id)
       THEN Return(t, 404, NoBody)
       ELSE Goto(t, "update_product_99")
    /\ UNCHANGED <<products, companies, now>>

\* lines 99-100: stored = products[product_id].model_dump() (KeyError when
\* the key is gone); stored.update(update.model_dump(exclude_unset=True))
update_product_99(t) ==
    /\ threads[t].pc = "update_product_99"
    /\ IF ~Contains(products, threads[t].id)
       THEN Return(t, 500, NoBody)
       ELSE /\ threads' = [threads EXCEPT
                             ![t].pc = "update_product_101",
                             ![t].stored = DictUpdate(GetItem(products, threads[t].id),
                                                      threads[t].body)]
            /\ UNCHANGED <<resp, nreq>>
    /\ UNCHANGED <<products, companies, now>>

\* line 101: products[product_id] = ProductRead(**stored)
update_product_101(t) ==
    /\ threads[t].pc = "update_product_101"
    /\ IF ~ProductReadValid(threads[t].stored)
       THEN Return(t, 500, NoBody) /\ UNCHANGED products
       ELSE /\ products' = SetItem(products, threads[t].id,
                                   ProductRead(threads[t].stored, threads[t].id, now, now))
            /\ Goto(t, "update_product_102")
    /\ UNCHANGED <<companies, now>>

\* line 102: return products[product_id] (KeyError when the key is gone)
update_product_102(t) ==
    /\ threads[t].pc = "update_product_102"
    /\ IF ~Contains(products, threads[t].id)
       THEN Return(t, 500, NoBody)
       ELSE Return(t, 200, GetItem(products, threads[t].id))
    /\ UNCHANGED <<products, companies, now>>

\* line 105: delete_product is entered.
delete_product_105(t) == Arrive(t, "delete_product_106", "delete", NoBody)

\* line 106: if product_id not in products: raise HTTPException(404)
delete_product_106(t) ==
    /\ threads[t].pc = "delete_product_106"
    /\ IF ~Contains(products, threads[t].id)
       THEN Return(t, 404, NoBody)
       ELSE Goto(t, "delete_product_108")
    /\ UNCHANGED <<products, companies, now>>

\* line 108: del products[product_id] (KeyError when the key is gone), then
\* the handler returns None: 204.
delete_product_108(t) ==
    /\ threads[t].pc = "delete_product_108"
    /\ IF ~Contains(products, threads[t].id)
       THEN Return(t, 500, NoBody) /\ UNCHANGED products
       ELSE /\ products' = DelItem(products, threads[t].id)
            /\ Return(t, 204, NoBody)
    /\ UNCHANGED <<companies, now>>

\* ------------------------------------------------------------ specification
Init ==
    /\ products = <<>>
    /\ companies = <<>>
    /\ now = 0
    /\ nreq = 0
    /\ resp = Response("none", "none", Null, 0, NoBody)
    /\ threads = [t \in Threads |-> Idle]

Next ==
    \/ \E body \in ProductCreateBodies : create_product(body)
    \/ \E q \in ProductQueries : list_products(q)
    \/ \E id \in UUIDs : get_products(id)
    \/ \E id \in UUIDs : \E body \in ProductPatchBodies : update_product(id, body)
    \/ \E id \in UUIDs : delete_product(id)
    \/ \E body \in CompanyCreateBodies : create_company(body)
    \/ \E q \in CompanyQueries : list_companies(q)
    \/ \E id \in UUIDs : get_companies(id)
    \/ \E id \in UUIDs : \E body \in CompanyPatchBodies : update_company(id, body)
    \/ \E id \in UUIDs : delete_company(id)
    \/ \E path \in {"/products", "/companies"} : no_route(path)

Spec == Init /\ [][Next]_vars

\* Every request of the API, a path id that is not a UUID and the health
\* routes included, in runs of MaxAllReq requests.
NextAll ==
    \/ nreq < MaxAllReq /\ \E body \in ProductCreateBodies : create_product(body)
    \/ nreq < MaxAllReq /\ \E q \in ProductQueries : list_products(q)
    \/ nreq < MaxAllReq /\ \E r \in ProductPatchRequests : update_product(r[1], r[2])
    \/ nreq < MaxAllReq /\ \E id \in PathIds : get_products(id)
    \/ nreq < MaxAllReq /\ \E id \in PathIds : delete_product(id)
    \/ nreq < MaxAllReq /\ \E body \in CompanyCreateBodies : create_company(body)
    \/ nreq < MaxAllReq /\ \E q \in CompanyQueries : list_companies(q)
    \/ nreq < MaxAllReq /\ \E r \in CompanyPatchRequests : update_company(r[1], r[2])
    \/ nreq < MaxAllReq /\ \E id \in PathIds : get_companies(id)
    \/ nreq < MaxAllReq /\ \E id \in PathIds : delete_company(id)
    \/ nreq < MaxAllReq /\ \E path \in {"/products", "/companies"} : no_route(path)
    \/ nreq < MaxAllReq /\ \E echo \in Echoes : get_health_no_path(echo)
    \/ nreq < MaxAllReq /\ \E r \in PathEchoRequests : get_health_with_path(r[1], r[2])

SpecAll == Init /\ [][NextAll]_vars

\* Two threads of the pool, each handling one request on the product id
\* ThreadId, one source line at a time; the store is empty, or holds the
\* record of an earlier POST.
InitThreads ==
    /\ products \in { <<>>,
                       SetItem(<<>>, ThreadId,
                               ProductRead(CHOOSE b \in ThreadCreateBodies : TRUE,
                                           ThreadId, 0, 0)) }
    /\ companies = <<>>
    /\ now = 0
    /\ nreq = 0
    /\ resp = Response("none", "none", Null, 0, NoBody)
    /\ threads = [t \in Threads |-> Idle]

NextThreads ==
    \/ \E t \in Threads : \E body \in ThreadCreateBodies : create_product_63(t, body)
    \/ \E t \in Threads : create_product_64(t)
    \/ \E t \in Threads : create_product_66(t)
    \/ \E t \in Threads : create_product_67(t)
    \/ \E t \in Threads : \E body \in ThreadPatchBodies : update_product_96(t, body)
    \/ \E t \in Threads : update_product_97(t)
    \/ \E t \in Threads : update_product_99(t)
    \/ \E t \in Threads : update_product_101(t)
    \/ \E t \in Threads : update_product_102(t)
    \/ \E t \in Threads : delete_product_105(t)
    \/ \E t \in Threads : delete_product_106(t)
    \/ \E t \in Threads : delete_product_108(t)

SpecThreads == InitThreads /\ [][NextThreads]_vars

\* -------------------------------------------------------------- properties
\* This step answered a request of the given operation and kind.
Answered(op, kind) == nreq' = nreq + 1 /\ resp'.op = op /\ resp'.kind = kind

\* C1: for both resource kinds, when a Create with a valid payload and a
\* fresh id succeeds, a Get on that id returns 200 with a record whose base
\* fields equal the payload fields and whose created_at and updated_at are
\* present and equal to each other.
C1_CreateThenGet ==
    [][ /\ (Answered("create", "product") /\ resp'.status = 201) =>
             \A body \in ProductCreateBodies :
               create_product(body) =>
                 LET r == get_products_response(products', resp'.id) IN
                 /\ r.status = 200
                 /\ \A f \in DOMAIN body : r.body[f] = body[f]
                 /\ {"created_at", "updated_at"} \subseteq DOMAIN r.body
                 /\ r.body.created_at = r.body.updated_at
        /\ (Answered("create", "company") /\ resp'.status = 201) =>
             \A body \in CompanyCreateBodies :
               create_company(body) =>
                 \A g \in get_companies_response(companies', resp'.id, now') :
                   LET r == g.resp IN
                   /\ r.status = 200
                   /\ \A f \in DOMAIN body : r.body[f] = body[f]
                   /\ {"created_at", "updated_at"} \subseteq DOMAIN r.body
                   /\ r.body.created_at = r.body.updated_at ]_vars

\* C2: for both resource kinds, a Create whose id is already a key of the
\* collection responds 400 and leaves the collection, and so the record
\* stored under that id with its field values and timestamps, unmodified.
C2_DuplicateCreateConflict ==
    [][ /\ (Answered("create", "product") /\ resp'.id # Null
                /\ Contains(products, resp'.id)) =>
             /\ resp'.status = 400
             /\ Contains(products', resp'.id)
             /\ GetItem(products', resp'.id) = GetItem(products, resp'.id)
             /\ products' = products
        /\ (Answered("create", "company") /\ resp'.id # Null
                /\ Contains(companies, resp'.id)) =>
             /\ resp'.status = 400
             /\ Contains(companies', resp'.id)
             /\ GetItem(companies', resp'.id) = GetItem(companies, resp'.id)
             /\ companies' = companies ]_vars

\* A duplicate Create has been answered while the record it collided with is
\* stored.
C2_Witness ==
    /\ resp.op = "create"
    /\ resp.status = 400
    /\ resp.kind = "company"
    /\ Contains(companies, resp.id)
    /\ Len(products) > 0

\* The PATCH bodies that supply only declared fields, each with a value.
ValueBodies(bodies, fields) ==
    { b \in bodies : DOMAIN b \subseteq fields
                     /\ \A f \in DOMAIN b : b[f] \notin {Null, WrongType} }

\* C3: for a present record, a Patch overlays exactly the fields its body
\* supplies and every field not supplied keeps its prior value, for any
\* subset of the Product fields and any subset of the Company fields.
C3_PatchFieldLocal ==
    [][ /\ (Answered("patch", "product") /\ Contains(products, resp'.id)) =>
             \A body \in ValueBodies(ProductPatchBodies, ProductUpdateFields) :
               update_product(resp'.id, body) =>
                 /\ Contains(products', resp'.id)
                 /\ GetItem(products', resp'.id)
                      = DictUpdate(GetItem(products, resp'.id), body)
        /\ (Answered("patch", "company") /\ Contains(companies, resp'.id)) =>
             \A body \in ValueBodies(CompanyPatchBodies, CompanyUpdateFields) :
               update_company(resp'.id, body) =>
                 /\ Contains(companies', resp'.id)
                 /\ GetItem(companies', resp'.id)
                      = DictUpdate(GetItem(companies, resp'.id), body) ]_vars

\* C4: for both resource kinds, a Patch on a present id with a body that
\* supplies no field responds 200 and leaves the stored record, and the whole
\* collection, unchanged.
C4_EmptyPatchNoOp ==
    [][ /\ (Answered("patch", "product") /\ Contains(products, resp'.id)) =>
             \A body \in ProductPatchBodies :
               (DOMAIN body = {} /\ update_product(resp'.id, body)) =>
                 resp'.status = 200 /\ products' = products
        /\ (Answered("patch", "company") /\ Contains(companies, resp'.id)) =>
             \A body \in CompanyPatchBodies :
               (DOMAIN body = {} /\ update_company(resp'.id, body)) =>
                 resp'.status = 200 /\ companies' = companies ]_vars

\* C5: in both collections every stored record carries an id equal to the key
\* it is stored under, and a Get answered 200 returns a record whose id is the
\* id asked for.
C5_IdIsKey ==
    /\ \A i \in DOMAIN products :
         "id" \in DOMAIN products[i].val /\ products[i].val.id = products[i].key
    /\ \A i \in DOMAIN companies :
         "id" \in DOMAIN companies[i].val /\ companies[i].val.id = companies[i].key
    /\ (resp.op = "get" /\ resp.status = 200) => resp.body.id = resp.id

\* C6 as stated: for both resource kinds, the request that follows a
\* successful Delete of an id, when it is a Get, a Patch or a Delete on that
\* id, fails with 404.
C6_AnyRequestAfterDelete ==
    [][ ( /\ resp.op = "delete" /\ resp.status = 204
          /\ nreq' = nreq + 1
    /\ UNCHANGED threads
          /\ resp'.kind = resp.kind /\ resp'.id = resp.id
          /\ resp'.op \in {"get", "patch", "delete"} )
        => resp'.status = 404 ]_vars

\* C6, amended: for both resource kinds, a successful Delete removes the id,
\* an absent id stays absent until a successful Create of it, and on an absent
\* id every Get, every Delete and every Patch whose body passes request
\* validation fails with 404.
C6_NotFoundAfterDelete ==
    [][ /\ (Answered("delete", "product") /\ resp'.status = 204) =>
             ~Contains(products', resp'.id)
        /\ (Answered("delete", "company") /\ resp'.status = 204) =>
             ~Contains(companies', resp'.id)
        /\ \A id \in UUIDs :
             (~Contains(products, id) /\ Contains(products', id)) =>
               Answered("create", "product") /\ resp'.status = 201 /\ resp'.id = id
        /\ \A id \in UUIDs :
             (~Contains(companies, id) /\ Contains(companies', id)) =>
               Answered("create", "company") /\ resp'.status = 201 /\ resp'.id = id
        /\ ( /\ nreq' = nreq + 1 /\ resp'.kind = "product"
             /\ resp'.op \in {"get", "delete"} /\ UUIDValid(resp'.id)
             /\ ~Contains(products, resp'.id) )
           => resp'.status = 404
        /\ ( /\ nreq' = nreq + 1 /\ resp'.kind = "company"
             /\ resp'.op \in {"get", "delete"} /\ UUIDValid(resp'.id)
             /\ ~Contains(companies, resp'.id) )
           => resp'.status = 404
        /\ ( /\ Answered("patch", "product") /\ UUIDValid(resp'.id)
             /\ ~Contains(products, resp'.id) /\ resp'.status # 404 ) =>
             \A body \in ProductPatchBodies :
               ProductUpdateValid(body) => ~update_product(resp'.id, body)
        /\ ( /\ Answered("patch", "company") /\ UUIDValid(resp'.id)
             /\ ~Contains(companies, resp'.id) /\ resp'.status # 404 ) =>
             \A body \in CompanyPatchBodies :
               CompanyUpdateValid(body) => ~update_company(resp'.id, body) ]_vars

\* A Delete has just succeeded, its id is absent, and a further request can
\* be handled.
C6_Witness ==
    /\ resp.op = "delete"
    /\ resp.status = 204
    /\ resp.kind = "product"
    /\ ~Contains(products, resp.id)
    /\ nreq < MaxReq

\* Every criterion the query supplies equals the record's field.
Matches(a, q) == \A f \in DOMAIN q : a[f] = q[f]

\* C7: for both resource kinds, List responds 200 with exactly the stored
\* records, in stored order, for which every supplied criterion equals the
\* corresponding field: all of them with no criterion, none of them (and still
\* 200) when a criterion matches no record.
C7_ListFilter ==
    [][ /\ Answered("list", "product") =>
             \A q \in ProductQueries :
               list_products(q) =>
                 /\ resp'.status = 200
                 /\ resp'.items = SelectSeq(Values(products), LAMBDA a : Matches(a, q))
        /\ Answered("list", "company") =>
             \A q \in CompanyQueries :
               list_companies(q) =>
                 /\ resp'.status = 200
                 /\ resp'.items = SelectSeq(Values(companies), LAMBDA a : Matches(a, q))
      ]_vars

\* C8: for both resource kinds, a PATCH whose body validates against the
\* Update schema, a supplied field being explicitly null included, responds
\* only 200 or 404.
C8_PatchOnly200Or404 ==
    [][ /\ (Answered("patch", "product") /\ UUIDValid(resp'.id)) =>
             \A body \in ProductPatchBodies :
               (ProductUpdateValid(body) /\ update_product(resp'.id, body)) =>
                 resp'.status \in {200, 404}
        /\ (Answered("patch", "company") /\ UUIDValid(resp'.id)) =>
             \A body \in CompanyPatchBodies :
               (CompanyUpdateValid(body) /\ update_company(resp'.id, body)) =>
                 resp'.status \in {200, 404} ]_vars

\* A complete Read record: every field of the Read schema, the required ones
\* not null.
CompleteRead(v, fields, required) ==
    DOMAIN v = fields /\ \A f \in required : v[f] # Null

\* C9: in both collections every stored value is a complete Read record, and
\* a Get is answered 404 or 200 with a complete Read record.
C9_StoredIsRead ==
    /\ \A i \in DOMAIN products :
         CompleteRead(products[i].val, ProductReadFields, ProductRequired)
    /\ \A i \in DOMAIN companies :
         CompleteRead(companies[i].val, CompanyReadFields, CompanyRequired)
    /\ resp.op = "get" =>
         \/ resp.status = 404
         \/ /\ resp.status = 200
            /\ resp.kind = "product" =>
                 CompleteRead(resp.body, ProductReadFields, ProductRequired)
            /\ resp.kind = "company" =>
                 CompleteRead(resp.body, CompanyReadFields, CompanyRequired)

\* The record carries both timestamps, with the values of record w.
SameTimestamps(v, w) ==
    /\ {"created_at", "updated_at"} \subseteq DOMAIN v
    /\ v.created_at = w.created_at
    /\ v.updated_at = w.updated_at

\* C10: for both resource kinds, a Patch on a record leaves the created_at
\* and updated_at that a Get on it returns as they were set at creation.
C10_TimestampsKept ==
    [][ /\ (Answered("patch", "product") /\ Contains(products, resp'.id)) =>
             LET before == get_products_response(products, resp'.id)
                 after == get_products_response(products', resp'.id)
             IN after.status = 200 /\ SameTimestamps(after.body, before.body)
        /\ ( /\ Answered("patch", "company") /\ Contains(companies, resp'.id)
             /\ IsCompanyRead(GetItem(companies, resp'.id)) ) =>
             \A g \in get_companies_response(companies', resp'.id, now') :
               g.resp.status = 200 =>
                 SameTimestamps(g.resp.body, GetItem(companies, resp'.id)) ]_vars

\* C11: for both resource kinds, a successful POST responds 201 with the Read
\* representation of the stored record: the payload fields, the generated or
\* echoed id, and the created_at and updated_at timestamps.
C11_CreateRespondsRead ==
    [][ /\ (Answered("create", "product") /\ resp'.status = 201) =>
             /\ Contains(products', resp'.id)
             /\ DOMAIN resp'.body = ProductReadFields
             /\ resp'.body = GetItem(products', resp'.id)
        /\ (Answered("create", "company") /\ resp'.status = 201) =>
             /\ Contains(companies', resp'.id)
             /\ DOMAIN resp'.body = CompanyReadFields
             /\ resp'.body = GetItem(companies', resp'.id) ]_vars

\* The step leaves both collections as they were.
StoresUnchanged == products' = products /\ companies' = companies

\* The requests of the model that fail validation: POST bodies with a missing
\* required field, a value of the wrong type or an id that is not a UUID, and
\* PATCH requests with a value of the wrong type, a missing required field or
\* a path id that is not a UUID.
ProductCreateInvalid == { b \in ProductCreateBodies : ~ProductCreateValid(b) }
CompanyCreateInvalid == { b \in CompanyCreateBodies : ~CompanyCreateValid(b) }
ProductPatchInvalid ==
    { r \in ProductPatchRequests : ~UUIDValid(r[1]) \/ ~ProductUpdateValid(r[2]) }
CompanyPatchInvalid ==
    { r \in CompanyPatchRequests : ~UUIDValid(r[1]) \/ ~CompanyUpdateValid(r[2]) }

\* Every step that answers a request failing validation, a GET or DELETE on a
\* path id that is not a UUID included, answers with the given status and
\* leaves both collections unchanged: a step that does otherwise is the step
\* of no such request.
ValidationAnswered(status) ==
    /\ (Answered("create", "product") /\ ~(resp'.status = status /\ StoresUnchanged)) =>
         \A body \in ProductCreateInvalid : ~create_product(body)
    /\ (Answered("create", "company") /\ ~(resp'.status = status /\ StoresUnchanged)) =>
         \A body \in CompanyCreateInvalid : ~create_company(body)
    /\ (Answered("patch", "product") /\ ~(resp'.status = status /\ StoresUnchanged)) =>
         \A r \in ProductPatchInvalid :
           r[1] \in {resp'.id, MalformedUUID} => ~update_product(r[1], r[2])
    /\ (Answered("patch", "company") /\ ~(resp'.status = status /\ StoresUnchanged)) =>
         \A r \in CompanyPatchInvalid :
           r[1] \in {resp'.id, MalformedUUID} => ~update_company(r[1], r[2])
    /\ (Answered("get", "product") /\ get_products(MalformedUUID)) =>
         resp'.status = status /\ StoresUnchanged
    /\ (Answered("get", "company") /\ get_companies(MalformedUUID)) =>
         resp'.status = status /\ StoresUnchanged
    /\ (Answered("delete", "product") /\ delete_product(MalformedUUID)) =>
         resp'.status = status /\ StoresUnchanged
    /\ (Answered("delete", "company") /\ delete_company(MalformedUUID)) =>
         resp'.status = status /\ StoresUnchanged

ListScenario(products_path, companies_path) ==
    /\ (nreq' = nreq + 1 /\ resp'.op \in {"list", "route"}) =>
         /\ \A q \in {NoBody, [quantity |-> "35"]} :
              get_path(products_path, q) =>
                resp'.op = "list" /\ resp'.kind = "product"
         /\ \A q \in {NoBody, [employees |-> "450"]} :
              get_path(companies_path, q) =>
                resp'.op = "list" /\ resp'.kind = "company"
    /\ ( /\ Answered("create", "product") /\ resp'.id # Null
         /\ ~Contains(products, resp'.id) ) => resp'.status = 201
    /\ ( /\ resp.op = "create" /\ resp.kind = "product" /\ resp.status = 201
         /\ Answered("patch", "product") /\ resp'.id = resp.id
         /\ update_product(resp.id, [price |-> "19.99"]) ) => resp'.status = 200
    /\ ( /\ resp.op = "patch" /\ resp.kind = "product" /\ resp.status = 200
         /\ resp.body.quantity = "35"
         /\ nreq' = nreq + 1 /\ resp'.op \in {"list", "route"}
         /\ get_path(products_path, [quantity |-> "35"]) ) =>
           /\ resp'.status = 200
           /\ \E i \in DOMAIN resp'.items : resp'.items[i] = resp.body
    /\ ( /\ Answered("delete", "product") /\ resp'.id # Null
         /\ Contains(products, resp'.id) ) => resp'.status = 204
    /\ ( /\ resp.op = "delete" /\ resp.kind = "product" /\ resp.status = 204
         /\ Answered("get", "product") /\ resp'.id = resp.id ) => resp'.status = 404

OthersKept(d, e, id) ==
    \A k \in UUIDs \ {id} :
      /\ Contains(e, k) <=> Contains(d, k)
      /\ Contains(d, k) => GetItem(e, k) = GetItem(d, k)

\* C14: every Create, Patch or Delete targeting id X in one collection leaves
\* unchanged every record stored under any other id in that collection and
\* the whole of the other collection; a product and a company may hold the
\* same id: a Create with an id fresh in its own collection succeeds whatever
\* the other collection holds.
C14_WritesAreLocal ==
    [][ /\ ( /\ nreq' = nreq + 1 /\ resp'.kind = "product"
             /\ resp'.op \in {"create", "patch", "delete"} ) =>
             /\ companies' = companies
             /\ OthersKept(products, products', resp'.id)
        /\ ( /\ nreq' = nreq + 1 /\ resp'.kind = "company"
             /\ resp'.op \in {"create", "patch", "delete"} ) =>
             /\ products' = products
             /\ OthersKept(companies, companies', resp'.id)
        /\ ( /\ Answered("create", "product") /\ resp'.id # Null
             /\ ~Contains(products, resp'.id) ) =>
             resp'.status = 201 /\ Contains(products', resp'.id)
        /\ ( /\ Answered("create", "company") /\ resp'.id # Null
             /\ ~Contains(companies, resp'.id) ) =>
             resp'.status = 201 /\ Contains(companies', resp'.id) ]_vars

\* A product and a company hold the same id and a PATCH on the company has
\* been answered 200.
C14_Witness ==
    /\ resp.op = "patch"
    /\ resp.kind = "company"
    /\ resp.status = 200
    /\ Contains(companies, resp.id)
    /\ Contains(products, resp.id)

\* The key set of the dict changes in this step only by the successful Create
\* of one id of that kind, which adds it, or the successful Delete of one,
\* which removes it.
KeysByCreateOrDelete(d, e, kind) ==
    Keys(e) # Keys(d) =>
      \/ /\ Answered("create", kind) /\ resp'.status = 201
         /\ resp'.id \notin Keys(d) /\ Keys(e) = Keys(d) \cup {resp'.id}
      \/ /\ Answered("delete", kind) /\ resp'.status = 204
         /\ resp'.id \in Keys(d) /\ Keys(e) = Keys(d) \ {resp'.id}

\* C15: every request that is answered with an error status (400, 404, a
\* validation error or a server error), and every Get, List and health
\* request, leaves both collections exactly as they were, and the key set of
\* a collection changes only by a successful Create, which adds that one id,
\* or a successful Delete, which removes that one id.
C15_ErrorsLeaveStore ==
    [][ nreq' = nreq + 1 =>
          /\ (resp'.status >= 400 \/ resp'.op \in {"get", "list", "health"}) =>
               StoresUnchanged
          /\ KeysByCreateOrDelete(products, products', "product")
          /\ KeysByCreateOrDelete(companies, companies', "company") ]_vars

\* The thread has finished a request of the given operation.
Done(t, op) == threads[t].pc = "done" /\ threads[t].op = op

\* C16: when two Create requests with the same fresh id (absent when each of
\* them arrived) have run on the thread pool and both have finished, exactly
\* one was answered 201 and the other 400, and the stored record is the one
\* of the request answered 201.
C16_OneCreateWins ==
    \A t1 \in Threads : \A t2 \in Threads \ {t1} :
      ( /\ Done(t1, "create") /\ Done(t2, "create")
        /\ threads[t1].id = threads[t2].id
        /\ ~threads[t1].present /\ ~threads[t2].present ) =>
        \E w \in {t1, t2} : \E l \in {t1, t2} \ {w} :
          /\ threads[w].status = 201
          /\ threads[l].status = 400
          /\ Contains(products, threads[w].id)
          /\ Restrict(GetItem(products, threads[w].id), ProductBaseFields)
               = threads[w].body

\* C17: when a Patch and a Delete on the same id, present when each of them
\* arrived, have run on the thread pool and both have finished, the Patch was
\* answered 200 or 404, and if the Delete was answered 204 the id is absent.
C17_PatchDeleteRace ==
    \A p \in Threads : \A d \in Threads \ {p} :
      ( /\ Done(p, "patch") /\ Done(d, "delete")
        /\ threads[p].id = threads[d].id
        /\ threads[p].present /\ threads[d].present ) =>
        /\ threads[p].status \in {200, 404}
        /\ threads[d].status = 204 => ~Contains(products, threads[d].id)

\* C18: when two Patch requests on the same id, present when each of them
\* arrived, that supply disjoint fields have run on the thread pool and both
\* have been answered 200, the stored record holds the values of both.
C18_NoLostUpdate ==
    \A t1 \in Threads : \A t2 \in Threads \ {t1} :
      ( /\ Done(t1, "patch") /\ Done(t2, "patch")
        /\ threads[t1].id = threads[t2].id
        /\ threads[t1].present /\ threads[t2].present
        /\ DOMAIN threads[t1].body \cap DOMAIN threads[t2].body = {}
        /\ threads[t1].status = 200 /\ threads[t2].status = 200 ) =>
        /\ Contains(products, threads[t1].id)
        /\ \A t \in {t1, t2} : \A f \in DOMAIN threads[t].body :
             GetItem(products, threads[t].id)[f] = threads[t].body[f]

====
